---- MODULE Spec2Model ----
(***************************************************************************)
(* Model of cli/cook/subcommands/submit.py: job assembly (submit,          *)
(* acquire_commands, parse_raw_job_spec), the federated submission loop    *)
(* (submit_federated) and the response interpreter (print_submit_result).  *)
(*                                                                         *)
(* Text is a sequence of symbols (one-element strings or word atoms), so   *)
(* concatenation is \o and the empty text is << >>.  A JSON-like value is  *)
(* tagged: S(text) is a scalar, M(dict) a mapping; a dict is a function    *)
(* from key strings to values.                                             *)
(***************************************************************************)
EXTENDS Integers, Sequences, FiniteSets, TLC

\* ---------------------------------------------------------------- bounds
MaxClusters == 3
MaxLines == 2
MaxRawJobs == 2
MaxTextLen == 6
MaxJsonLen == 2
MaxTokens == 3

\* ---------------------------------------------------------------- values
S(t) == [tag |-> "s", v |-> t]
M(d) == [tag |-> "m", v |-> d]

EmptyDict == [k \in {} |-> S(<< >>)]

Put(d, k, val) == [x \in (DOMAIN d) \cup {k} |-> IF x = k THEN val ELSE d[x]]

Pop(d, k) == [x \in (DOMAIN d) \ {k} |-> d[x]]

\* Python truthiness of a value: the empty text and the empty dict are falsy
Truthy(val) == IF val.tag = "s" THEN val.v # << >> ELSE DOMAIN val.v # {}

\* dict.get(k) is truthy
Get(d, k) == k \in DOMAIN d /\ Truthy(d[k])

\* cook.util.deep_merge: keys of both, b wins, two mappings are merged
RECURSIVE deep_merge(_, _)
deep_merge(a, b) ==
    [k \in (DOMAIN a) \cup (DOMAIN b) |->
        IF k \notin DOMAIN b THEN a[k]
        ELSE IF k \in DOMAIN a /\ a[k].tag = "m" /\ b[k].tag = "m"
             THEN M(deep_merge(a[k].v, b[k].v))
             ELSE b[k]]

\* uuid.uuid4(): the n-th identifier generated in this invocation
uuid4(n) == S(<<"g" \o ToString(n)>>)

\* cook.util.current_user()
current_user == "user"

\* ------------------------------------------------- parse_raw_job_spec
\* json.loads(r): the payload is given by the outcome of parsing it,
\* shape in RawShapes; val holds the parsed overrides (one for a dict)
RawShapes == {"syntax_error", "string", "number", "dict", "list"}

\* parse_raw_job_spec with the operands of the merge of a list swapped
parse_raw_job_spec_TemplateWins(job, r) ==
    IF r.shape = "dict"
    THEN [err |-> "none", jobs |-> <<deep_merge(job, r.val[1])>>]
    ELSE IF r.shape = "list"
    THEN [err |-> "none",
          jobs |-> [i \in 1..Len(r.val) |-> deep_merge(r.val[i], job)]]
    ELSE [err |-> "malformed JSON for raw job", jobs |-> << >>]

parse_raw_job_spec(job, r) ==
    IF r.shape = "dict"
    THEN [err |-> "none", jobs |-> <<deep_merge(job, r.val[1])>>]
    ELSE IF r.shape = "list"
    THEN [err |-> "none",
          jobs |-> [i \in 1..Len(r.val) |-> deep_merge(job, r.val[i])]]
    ELSE [err |-> "malformed JSON for raw job", jobs |-> << >>]

\* --------------------------------------------------- acquire_commands
SafeChars == {"a", "b", "-"}

RECURSIVE EscapeQuotes(_)
EscapeQuotes(s) ==
    IF s = << >> THEN << >>
    ELSE (IF Head(s) = "'" THEN <<"'", "\"", "'", "\"", "'">> ELSE <<Head(s)>>)
         \o EscapeQuotes(Tail(s))

\* shlex.quote
shlex_quote(s) ==
    IF s = << >> THEN <<"'", "'">>
    ELSE IF \A i \in 1..Len(s) : s[i] \in SafeChars THEN s
    ELSE <<"'">> \o EscapeQuotes(s) \o <<"'">>

RECURSIVE JoinSpace(_)
JoinSpace(ts) ==
    IF ts = << >> THEN << >>
    ELSE IF Len(ts) = 1 THEN ts[1]
    ELSE ts[1] \o <<" ">> \o JoinSpace(Tail(ts))

\* read_commands_from_stdin: lines are the result of read_lines()
read_commands_from_stdin(lines) ==
    IF Len(lines) < 1
    THEN [err |-> "You must specify at least one command.", commands |-> << >>]
    ELSE [err |-> "none", commands |-> lines]

acquire_commands(command_args, lines) ==
    IF command_args # << >>
    THEN IF Len(command_args) = 1
         THEN [err |-> "none", commands |-> command_args]
         ELSE LET rest == IF command_args[1] = <<"-", "-">>
                          THEN Tail(command_args) ELSE command_args
              IN [err |-> "none",
                  commands |-> <<JoinSpace([i \in 1..Len(rest) |-> shlex_quote(rest[i])])>>]
    ELSE read_commands_from_stdin(lines)

\* ------------------------------------------------------------- submit
\* Flatten a text into one key string
RECURSIVE Flatten(_)
Flatten(t) == IF t = << >> THEN "" ELSE Head(t) \o Flatten(Tail(t))

\* Index of the first "=" of an env entry, 0 when there is none
RECURSIVE FirstEq(_, _)
FirstEq(e, i) ==
    IF i > Len(e) THEN 0 ELSE IF e[i] = "=" THEN i ELSE FirstEq(e, i + 1)

\* dict([e.split('=', maxsplit=1) for e in env]): fails on an entry without "="
EnvSplittable(env) == \A i \in 1..Len(env) : FirstEq(env[i], 1) > 0

RECURSIVE EnvDict(_)
EnvDict(env) ==
    IF env = << >> THEN EmptyDict
    ELSE LET e == env[Len(env)]
             p == FirstEq(e, 1)
         IN Put(EnvDict(SubSeq(env, 1, Len(env) - 1)),
                Flatten(SubSeq(e, 1, p - 1)), S(SubSeq(e, p + 1, Len(e))))

VERSION == <<"VERSION">>

\* lines 160-162: the application entry of the template
WithApplication(args) ==
    LET name == IF "application-name" \in DOMAIN args
                THEN args["application-name"] ELSE S(<<"cook-scheduler-cli">>)
        vers == IF "application-version" \in DOMAIN args
                THEN args["application-version"] ELSE S(VERSION)
    IN Put(Pop(Pop(args, "application-name"), "application-version"),
           "application", M([name |-> name, version |-> vers]))

\* ResolveGroup with the generated id left off the template
ResolveGroup_IdNotOnTemplate(jt) ==
    IF "group-name" \in DOMAIN jt
    THEN LET gen == "group" \notin DOMAIN jt
             jt1 == IF gen THEN Put(jt, "group", uuid4(1)) ELSE jt
         IN [template |-> Pop(jt, "group-name"),
             group |-> [name |-> jt1["group-name"], uuid |-> jt1["group"]],
             used |-> IF gen THEN 1 ELSE 0]
    ELSE [template |-> jt, group |-> EmptyDict, used |-> 0]

\* lines 164-172: the template after group resolution, the group (the
\* empty dict stands for None) and the number of identifiers generated
ResolveGroup(jt) ==
    IF "group-name" \in DOMAIN jt
    THEN LET gen == "group" \notin DOMAIN jt
             jt1 == IF gen THEN Put(jt, "group", uuid4(1)) ELSE jt
         IN [template |-> Pop(jt1, "group-name"),
             group |-> [name |-> jt1["group-name"], uuid |-> jt1["group"]],
             used |-> IF gen THEN 1 ELSE 0]
    ELSE [template |-> jt, group |-> EmptyDict, used |-> 0]

\* line 175: raw mode together with command tokens
RawWithCommand(raw, command) == raw /\ command # << >>

\* MultipleWithUuid with the check left out
MultipleWithUuid_Unchecked(job_template, commands) == FALSE

\* line 183: an explicit uuid with several commands
MultipleWithUuid(job_template, commands) ==
    Get(job_template, "uuid") /\ Len(commands) > 1

\* lines 186-187
ConvertEnv(jt) ==
    IF Get(jt, "env") THEN Put(jt, "env", M(EnvDict(jt["env"].v))) ELSE jt

\* lines 174-189: the job list before post-processing, or the failure
BuildJobs(raw, command, jt, lines, payload) ==
    IF raw
    THEN IF RawWithCommand(raw, command)
         THEN [err |-> "You cannot specify a command at the command line when using --raw/-r.",
               jobs |-> << >>]
         ELSE parse_raw_job_spec(jt, payload)
    ELSE LET ac == acquire_commands(command, lines)
         IN IF ac.err # "none" THEN [err |-> ac.err, jobs |-> << >>]
            ELSE IF MultipleWithUuid(jt, ac.commands)
            THEN [err |-> "You cannot specify multiple subcommands with a single UUID.",
                  jobs |-> << >>]
            ELSE IF Get(jt, "env") /\ ~EnvSplittable(jt["env"].v)
            THEN [err |-> "ValueError", jobs |-> << >>]
            ELSE [err |-> "none",
                  jobs |-> [i \in 1..Len(ac.commands) |->
                              deep_merge(ConvertEnv(jt), [command |-> S(ac.commands[i])])]]

\* number of jobs among the first n that lack a uuid
RECURSIVE Lacking(_, _)
Lacking(jobs, n) ==
    IF n = 0 THEN 0
    ELSE Lacking(jobs, n - 1) + (IF Get(jobs[n], "uuid") THEN 0 ELSE 1)

\* PostProcess with the default name assigned to every job
PostProcess_AlwaysDefaultName(job, prefix, n) ==
    LET j1 == IF ~Get(job, "uuid") THEN Put(job, "uuid", uuid4(n)) ELSE job
        j2 == Put(j1, "name", S(<<current_user, "_job">>))
    IN IF prefix # << >>
       THEN Put(j2, "command", S(prefix \o j2["command"].v))
       ELSE j2

\* lines 192-199 for the i-th job; used identifiers were generated before
PostProcess(job, prefix, n) ==
    LET j1 == IF ~Get(job, "uuid") THEN Put(job, "uuid", uuid4(n)) ELSE job
        j2 == IF ~Get(j1, "name")
              THEN Put(j1, "name", S(<<current_user, "_job">>)) ELSE j1
    IN IF prefix # << >>
       THEN Put(j2, "command", S(prefix \o j2["command"].v))
       ELSE j2

\* line 199 raises KeyError for a job without a command
PrefixFails(jobs, prefix) ==
    prefix # << >> /\ \E i \in 1..Len(jobs) : "command" \notin DOMAIN jobs[i]

\* lines 156-201: what submit hands to submit_federated, or the failure
Assemble(raw, command, prefix, args, lines, payload) ==
    LET rg == ResolveGroup(WithApplication(args))
        bj == BuildJobs(raw, command, rg.template, lines, payload)
    IN IF bj.err # "none" THEN [err |-> bj.err, jobs |-> << >>, group |-> rg.group]
       ELSE IF PrefixFails(bj.jobs, prefix)
       THEN [err |-> "KeyError", jobs |-> << >>, group |-> rg.group]
       ELSE [err |-> "none",
             jobs |-> [i \in 1..Len(bj.jobs) |->
                         PostProcess(bj.jobs[i], prefix,
                                     rg.used + Lacking(bj.jobs, i - 1) + 1)],
             group |-> rg.group]

\* ------------------------------------------------ print_submit_result
Quote == "\""
Whitespace == {" ", "\n"}
UuidAtoms == {"U1", "U2"}
Marker == <<" ", "submitted", " ", "groups">>

\* cook.util.is_valid_uuid on a token
is_valid_uuid(tok) == Len(tok) = 1 /\ tok[1] \in UuidAtoms

\* str.strip('"'): every leading and trailing quote is removed
RECURSIVE LStrip(_)
LStrip(t) == IF t # << >> /\ Head(t) = Quote THEN LStrip(Tail(t)) ELSE t

RECURSIVE RStrip(_)
RStrip(t) ==
    IF t # << >> /\ t[Len(t)] = Quote THEN RStrip(SubSeq(t, 1, Len(t) - 1)) ELSE t

StripQuotes(t) == RStrip(LStrip(t))

MarkerAt(t, i) ==
    i + Len(Marker) - 1 <= Len(t) /\ SubSeq(t, i, i + Len(Marker) - 1) = Marker

\* ' submitted groups' in text
HasMarker(t) == \E i \in 1..Len(t) : MarkerAt(t, i)

\* text.index(' submitted groups'), as a 1-based position
MarkerIndex(t) == CHOOSE i \in 1..Len(t) : MarkerAt(t, i) /\ \A j \in 1..(i - 1) : ~MarkerAt(t, j)

\* str.split(): the maximal runs of non-whitespace symbols, in order
RECURSIVE Split(_, _)
Split(t, cur) ==
    IF t = << >> THEN (IF cur = << >> THEN << >> ELSE <<cur>>)
    ELSE IF Head(t) \in Whitespace
         THEN (IF cur = << >> THEN << >> ELSE <<cur>>) \o Split(Tail(t), << >>)
         ELSE Split(Tail(t), Append(cur, Head(t)))

RECURSIVE FilterUuids(_)
FilterUuids(toks) ==
    IF toks = << >> THEN << >>
    ELSE (IF is_valid_uuid(Head(toks)) THEN <<Head(toks)>> ELSE << >>)
         \o FilterUuids(Tail(toks))

\* ExtractUuids without the cut at the marker
ExtractUuids_NoCut(body) == FilterUuids(Split(StripQuotes(body), << >>))

\* lines 58-62: the identifiers of a 201 body
ExtractUuids(body) ==
    LET text == StripQuotes(body)
        cut  == IF HasMarker(text) THEN SubSeq(text, 1, MarkerIndex(text) - 1) ELSE text
    IN FilterUuids(Split(cut, << >>))

\* response.json(): data is the parsed body, shape "invalid" when the body
\* is not JSON; obj is the dict of an object, arr the texts of an array,
\* str the text of a string
JsonShapes == {"invalid", "object", "array", "string", "number", "null"}

Json(shape, obj, arr, str) == [shape |-> shape, obj |-> obj, arr |-> arr, str |-> str]

JObject(d) == Json("object", d, << >>, << >>)
JArray(a) == Json("array", EmptyDict, a, << >>)
JString(t) == Json("string", EmptyDict, << >>, t)
JOther(shape) == Json(shape, EmptyDict, << >>, << >>)

\* json.dumps(x)
Dumps(x) == [how |-> "dumps", of |-> x]

\* key in data (lines 67, 69): "TypeError" when data is not a container
KeyIn(key, data) ==
    IF data.shape = "object" THEN (IF key \in DOMAIN data.obj THEN "yes" ELSE "no")
    ELSE IF data.shape = "array"
         THEN (IF \E i \in 1..Len(data.arr) : data.arr[i] = <<key>> THEN "yes" ELSE "no")
    ELSE IF data.shape = "string"
         THEN (IF \E i \in 1..Len(data.str) :
                    data.str[i] = key \/ (key = "error" /\ data.str[i] = "errors")
               THEN "yes" ELSE "no")
    ELSE "TypeError"

\* lines 65-74: the failure reason of a non-201 response
FailureReason(resp) ==
    LET data == resp.json
    IN IF data.shape = "invalid"
       THEN [exc |-> "none", reason |-> [how |-> "text", of |-> resp.text \o <<"\n">>]]
       ELSE IF KeyIn("errors", data) = "TypeError"
       THEN [exc |-> "TypeError", reason |-> [how |-> "none", of |-> << >>]]
       ELSE IF KeyIn("errors", data) = "yes"
       THEN IF data.shape = "object"
            THEN [exc |-> "none", reason |-> Dumps(data.obj["errors"])]
            ELSE [exc |-> "TypeError", reason |-> [how |-> "none", of |-> << >>]]
       ELSE IF KeyIn("error", data) = "yes"
       THEN IF data.shape = "object"
            THEN [exc |-> "none", reason |-> [how |-> "value", of |-> data.obj["error"]]]
            ELSE [exc |-> "TypeError", reason |-> [how |-> "none", of |-> << >>]]
       ELSE [exc |-> "none", reason |-> Dumps(data)]

\* lines 56-75: the message printed for the cluster, or the exception
print_submit_result(cluster, resp) ==
    IF resp.status = 201
    THEN [exc |-> "none",
          msg |-> [cluster |-> cluster, kind |-> "succeeded",
                   uuids |-> ExtractUuids(resp.text), reason |-> [how |-> "none", of |-> << >>]]]
    ELSE LET fr == FailureReason(resp)
         IN [exc |-> fr.exc,
             msg |-> [cluster |-> cluster, kind |-> "failed",
                      uuids |-> << >>, reason |-> fr.reason]]

\* --------------------------------------------------- submit_federated
\* http.post: a response, or one of the two exceptions the loop handles
Response(status, text, json) ==
    [kind |-> "response", status |-> status, text |-> text, json |-> json]

NoJson == JOther("invalid")
ReadTimeout == [kind |-> "ReadTimeout", status |-> 0, text |-> << >>, json |-> NoJson]
IOError == [kind |-> "IOError", status |-> 0, text |-> << >>, json |-> NoJson]

\* LoopStep with the read-timeout handled like a connectivity failure
LoopStep_TimeoutContinues(cluster, r) ==
    IF r.kind \in {"ReadTimeout", "IOError"} THEN "continue"
    ELSE IF print_submit_result(cluster, r).exc # "none" THEN "raise"
    ELSE IF r.status = 201 THEN "return0"
    ELSE "continue"

\* LoopStep without the test of the status code before returning 0
LoopStep_AnyResponseReturns(cluster, r) ==
    IF r.kind = "ReadTimeout" THEN "return1"
    ELSE IF r.kind = "IOError" THEN "continue"
    ELSE IF print_submit_result(cluster, r).exc # "none" THEN "raise"
    ELSE "return0"

\* lines 86-107: how one iteration of the loop ends for the outcome of
\* the POST: "return0", "return1", "continue", or "raise" when an
\* exception no handler of the loop catches leaves print_submit_result
LoopStep(cluster, r) ==
    IF r.kind = "ReadTimeout" THEN "return1"
    ELSE IF r.kind = "IOError" THEN "continue"
    ELSE IF print_submit_result(cluster, r).exc # "none" THEN "raise"
    ELSE IF r.status = 201 THEN "return0"
    ELSE "continue"

\* NextCluster that stays at the cluster after a failed attempt
NextCluster_Retry(k, step) == k

\* line 83: the cluster of the next iteration
NextCluster(k, step) == IF step = "continue" THEN k + 1 ELSE k

\* inc called after every response that was interpreted
inc_OnEveryResponse(m, r, step, n) ==
    IF r.kind = "response" /\ step \in {"return0", "continue"} THEN Append(m, n) ELSE m

\* lines 95-96: metrics.inc('command.submit.jobs', len(jobs))
inc(m, r, step, n) == IF step = "return0" THEN Append(m, n) ELSE m

\* SentJobs with the ids generated again for every attempt
SentJobs_NewIds(js, k) ==
    [i \in 1..Len(js) |-> Put(js[i], "uuid", uuid4(10 * k + i))]

\* line 89: the job list put into the body of the k-th attempt
SentJobs(js, k) == js

\* lines 89-91
json_body(js, g) ==
    IF DOMAIN g # {} THEN [jobs |-> js, groups |-> <<g>>] ELSE [jobs |-> js]

\* ------------------------------------------------------------- inputs
\* sequences over pool of length at most n
SeqsUpTo(pool, n) == UNION {[1..k -> pool] : k \in 0..n}

\* add_defaults (line 243): the defaults every configuration carries
Defaults == [cpus |-> S(<<"1">>), mem |-> S(<<"128">>)] @@ ("max-retries" :> S(<<"1">>))

Optional(key, present, val) == IF present THEN (key :> val) ELSE EmptyDict

\* the configurations: uuid, group-name and group present or absent, and
\* configurations with a name or an env list
ArgsPool ==
    {Defaults @@ Optional("uuid", u, S(<<"U0">>))
              @@ Optional("group-name", gn, S(<<"gname">>))
              @@ Optional("group", g, S(<<"G0">>)) : u \in BOOLEAN, gn \in BOOLEAN, g \in BOOLEAN}
    \cup {Defaults @@ ("name" :> S(<<"n0">>)),
          Defaults @@ ("env" :> [tag |-> "l", v |-> <<<<"K", "=", "V">>>>]),
          Defaults @@ ("env" :> [tag |-> "l", v |-> <<<<"K">>>>])}

\* command tokens given at the command line; << >> when there are none
CommandPool ==
    {<< >>, <<<<"a">>>>, <<<<"-", "-">>, <<"a">>>>, <<<<"a">>, <<"b", " ", "c">>>>}

PrefixPool == {<< >>, <<"p">>}

\* lines read by read_lines()
LinePool == {<<"a">>, <<"b">>}

\* raw job overrides
OverridePool ==
    {EmptyDict,
     [command |-> S(<<"x">>)],
     [command |-> S(<<"y">>), uuid |-> S(<<"U1">>), name |-> S(<<"n1">>),
      application |-> M([name |-> S(<<"app">>)])]}

NoPayload == [shape |-> "syntax_error", val |-> << >>]

PayloadPool ==
    {[shape |-> sh, val |-> << >>] : sh \in {"syntax_error", "string", "number"}}
    \cup {[shape |-> "dict", val |-> <<o>>] : o \in OverridePool}
    \cup {[shape |-> "list", val |-> l] : l \in SeqsUpTo(OverridePool, MaxRawJobs)}

\* outcomes of a POST used by the federation: one created response, three
\* rejections (a JSON object, a body that is not JSON, a JSON number), and
\* the two exceptions
CreatedPool ==
    {Response(201, <<Quote, "U1", " ", "U2", " ", "submitted", " ", "groups", Quote>>, NoJson)}

RejectedPool ==
    {Response(400, << >>, JObject([errors |-> S(<<"bad">>)])),
     Response(503, <<"oops">>, NoJson),
     Response(500, << >>, JOther("number"))}

OutcomePool == CreatedPool \cup RejectedPool \cup {ReadTimeout, IOError}

\* whether the cluster may have created the jobs for this outcome: a 201
\* means it did, a rejection that it did not, and with an exception the
\* request may or may not have been processed
MayAccept(r) ==
    IF r.kind = "response" THEN {r.status = 201} ELSE BOOLEAN

\* -------------------------------------------------------------- state
VARIABLES pc, raw, command, prefix, args, lines, payload, nclusters,
          jobs, group, idx, posts, accepted, result, metrics, reports, resp

vars == <<pc, raw, command, prefix, args, lines, payload, nclusters,
          jobs, group, idx, posts, accepted, result, metrics, reports, resp>>

inputs == <<raw, command, prefix, args, lines, payload, nclusters>>

Init ==
    /\ pc = "submit"
    /\ raw \in BOOLEAN
    /\ command \in CommandPool
    /\ prefix \in PrefixPool
    /\ args \in ArgsPool
    /\ lines \in SeqsUpTo(LinePool, MaxLines)
    /\ payload \in PayloadPool
    \* stdin is read once: as lines, as a payload, or not at all
    /\ (raw \/ command # << >>) => lines = << >>
    /\ (~raw \/ command # << >>) => payload = NoPayload
    /\ nclusters \in 1..MaxClusters
    /\ jobs = << >>
    /\ group = EmptyDict
    /\ idx = 0
    /\ posts = << >>
    /\ accepted = {}
    /\ result = "none"
    /\ metrics = << >>
    /\ reports = << >>
    /\ resp = IOError

\* submit, lines 154-202, up to the call of submit_federated
Submit ==
    /\ pc = "submit"
    /\ LET a == Assemble(raw, command, prefix, args, lines, payload)
       IN IF a.err # "none"
          THEN /\ pc' = "done"
               /\ result' = a.err
               /\ UNCHANGED <<jobs, group, idx>>
          ELSE /\ pc' = "federated"
               /\ jobs' = a.jobs
               /\ group' = a.group
               /\ idx' = 1
               /\ UNCHANGED result
    /\ UNCHANGED <<inputs, posts, accepted, metrics, reports, resp>>

\* submit_federated, lines 83-107: one iteration of the loop
Attempt ==
    /\ pc = "federated"
    /\ idx <= nclusters
    /\ \E r \in OutcomePool, acc \in BOOLEAN :
         /\ acc \in MayAccept(r)
         /\ resp' = r
         /\ posts' = Append(posts, [cluster |-> idx,
                                    body |-> json_body(SentJobs(jobs, idx), group),
                                    kind |-> r.kind, status |-> r.status])
         /\ accepted' = IF acc THEN accepted \cup {idx} ELSE accepted
         /\ reports' = IF r.kind = "response" /\ print_submit_result(idx, r).exc = "none"
                       THEN Append(reports, print_submit_result(idx, r).msg)
                       ELSE IF r.kind = "IOError"
                       THEN Append(reports, [cluster |-> idx, kind |-> "failed", uuids |-> << >>,
                                             reason |-> [how |-> "text", of |-> <<"Cannot connect">>]])
                       ELSE IF r.kind = "ReadTimeout"
                       THEN Append(reports, [cluster |-> idx, kind |-> "timeout", uuids |-> << >>,
                                             reason |-> [how |-> "none", of |-> << >>]])
                       ELSE reports
         /\ LET step == LoopStep(idx, r)
            IN /\ pc' = IF step = "continue" THEN "federated" ELSE "done"
               /\ idx' = NextCluster(idx, step)
               /\ result' = IF step = "return0" THEN "0"
                            ELSE IF step = "return1" THEN "1"
                            ELSE IF step = "raise" THEN "TypeError"
                            ELSE result
               /\ metrics' = inc(metrics, r, step, Len(jobs))
    /\ UNCHANGED <<inputs, jobs, group>>

\* submit_federated, line 108: the list is exhausted
Exhausted ==
    /\ pc = "federated"
    /\ idx > nclusters
    /\ pc' = "done"
    /\ result' = "Job submission failed on all of your configured clusters."
    /\ UNCHANGED <<inputs, jobs, group, idx, posts, accepted, metrics, reports, resp>>

Next == Submit \/ Attempt \/ Exhausted

Spec == Init /\ [][Next]_vars

\* ---------------------------------------- parse_raw_job_spec in isolation
\* the templates submit passes to parse_raw_job_spec (line 179)
TemplatePool == {ResolveGroup(WithApplication(a)).template : a \in ArgsPool}

InitParse ==
    /\ pc = "parse"
    /\ args \in TemplatePool
    /\ payload \in PayloadPool
    /\ raw = TRUE
    /\ command = << >>
    /\ prefix = << >>
    /\ lines = << >>
    /\ nclusters = 1
    /\ jobs = << >>
    /\ group = EmptyDict
    /\ idx = 0
    /\ posts = << >>
    /\ accepted = {}
    /\ result = "none"
    /\ metrics = << >>
    /\ reports = << >>
    /\ resp = IOError

\* parse_raw_job_spec(job_template, jobs_json), lines 22-32
ParseRaw ==
    /\ pc = "parse"
    /\ pc' = "parsed"
    /\ jobs' = parse_raw_job_spec(args, payload).jobs
    /\ result' = parse_raw_job_spec(args, payload).err
    /\ UNCHANGED <<inputs, group, idx, posts, accepted, metrics, reports, resp>>

NextParse == ParseRaw

SpecParse == InitParse /\ [][NextParse]_vars

\* --------------------------------------- print_submit_result in isolation
Alphabet == {Quote, " ", "\n", "U1", "U2", "submitted", "groups"}

BodyPool == SeqsUpTo(Alphabet, MaxTextLen)

\* bodies of non-201 responses: objects with and without the keys errors
\* and error, arrays and strings that hold the words errors and error or
\* not, a number, null, and bodies that are not JSON
ObjectPool ==
    {Optional("errors", a, S(<<"e1">>)) @@ Optional("error", b, S(<<"e2">>))
        @@ Optional("message", c, S(<<"m">>)) : a \in BOOLEAN, b \in BOOLEAN, c \in BOOLEAN}

WordPool == {"errors", "error", "x"}

JsonPool ==
    {JObject(d) : d \in ObjectPool}
    \cup {JArray(a) : a \in SeqsUpTo({<<w>> : w \in WordPool}, MaxJsonLen)}
    \cup {JString(t) : t \in SeqsUpTo(WordPool, MaxJsonLen)}
    \cup {JOther("number"), JOther("null")}

FailedPool ==
    {Response(400, << >>, j) : j \in JsonPool}
    \cup {Response(500, t, NoJson) : t \in {<< >>, <<"oops">>}}

InitPrint ==
    /\ pc = "print"
    /\ resp \in {Response(201, t, NoJson) : t \in BodyPool} \cup FailedPool
    /\ raw = FALSE
    /\ command = << >>
    /\ prefix = << >>
    /\ args = Defaults
    /\ lines = << >>
    /\ payload = NoPayload
    /\ nclusters = 1
    /\ jobs = << >>
    /\ group = EmptyDict
    /\ idx = 1
    /\ posts = << >>
    /\ accepted = {}
    /\ result = "none"
    /\ metrics = << >>
    /\ reports = << >>

\* print_submit_result(cluster, response), lines 56-75
PrintResult ==
    /\ pc = "print"
    /\ pc' = "printed"
    /\ LET pr == print_submit_result(idx, resp)
       IN /\ reports' = IF pr.exc = "none" THEN <<pr.msg>> ELSE << >>
          /\ result' = pr.exc
    /\ UNCHANGED <<inputs, jobs, group, idx, posts, accepted, metrics, resp>>

NextPrint == PrintResult

SpecPrint == InitPrint /\ [][NextPrint]_vars

\* ------------------------------------- one cluster, every kind of batch
\* configurations with every combination of uuid, name, group-name and
\* group, and configurations with an env list
ArgsRich ==
    {Defaults @@ Optional("uuid", u, S(<<"U0">>))
              @@ Optional("name", n, S(<<"n0">>))
              @@ Optional("group-name", gn, S(<<"gname">>))
              @@ Optional("group", g, S(<<"G0">>)) :
         u \in BOOLEAN, n \in BOOLEAN, gn \in BOOLEAN, g \in BOOLEAN}
    \cup {Defaults @@ ("env" :> [tag |-> "l", v |-> <<<<"K", "=", "V">>>>]),
          Defaults @@ ("env" :> [tag |-> "l", v |-> <<<<"K">>>>])}

\* tokens of the command line: the separator, a plain word, a word with a blank
TokenPool == {<<"-", "-">>, <<"a">>, <<"b", " ", "c">>}

CommandRich == SeqsUpTo(TokenPool, MaxTokens)

\* raw overrides: without a command, with one, with uuid, name and
\* application, with an empty uuid and name, and with a group of its own
OverrideRich ==
    {EmptyDict,
     [command |-> S(<<"x">>)],
     [command |-> S(<<"y">>), uuid |-> S(<<"U1">>), name |-> S(<<"n1">>),
      application |-> M([name |-> S(<<"app">>)])],
     [command |-> S(<<"z">>), uuid |-> S(<< >>), name |-> S(<< >>)],
     [command |-> S(<<"x">>), group |-> S(<<"G9">>)]}

PayloadRich ==
    {[shape |-> sh, val |-> << >>] : sh \in {"syntax_error", "string", "number"}}
    \cup {[shape |-> "dict", val |-> <<o>>] : o \in OverrideRich}
    \cup {[shape |-> "list", val |-> l] : l \in SeqsUpTo(OverrideRich, MaxRawJobs)}

InitBatch ==
    /\ pc = "submit"
    /\ raw \in BOOLEAN
    /\ command \in CommandRich
    /\ prefix \in PrefixPool
    /\ args \in ArgsRich
    /\ lines \in SeqsUpTo(LinePool, MaxLines)
    /\ payload \in PayloadRich
    /\ (raw \/ command # << >>) => lines = << >>
    /\ (~raw \/ command # << >>) => payload = NoPayload
    /\ nclusters = 1
    /\ jobs = << >>
    /\ group = EmptyDict
    /\ idx = 0
    /\ posts = << >>
    /\ accepted = {}
    /\ result = "none"
    /\ metrics = << >>
    /\ reports = << >>
    /\ resp = IOError

SpecBatch == InitBatch /\ [][Next]_vars

\* ============================================================== claims
AllFailed == "Job submission failed on all of your configured clusters."

\* submit_federated has been entered
Federating == idx >= 1 /\ pc \in {"federated", "done"}

IsResponse(p) == p.kind = "response"
Created(p) == p.kind = "response" /\ p.status = 201
Rejected(p) == p.kind = "response" /\ p.status # 201
Recoverable(p) == Rejected(p) \/ p.kind = "IOError"

InListOrder == \A i \in 1..Len(posts) : posts[i].cluster = i

\* C1: in submit_federated the clusters are contacted in list order, cluster
\* k is contacted if and only if every earlier cluster ended in a non-201
\* response or a connectivity failure, and a 201 ends the call with success
\* and without a later request.
C1_OrderedUntilCreated ==
    Federating =>
        /\ InListOrder
        /\ pc = "done" =>
             \A k \in 1..nclusters :
                 (k <= Len(posts)) <=>
                     (\A j \in 1..(k - 1) : j <= Len(posts) /\ Recoverable(posts[j]))
        /\ \A i \in 1..Len(posts) :
               Created(posts[i]) => (i = Len(posts) /\ pc = "done" /\ result = "0")

\* C2: when every cluster answers with a non-201 response, exactly one POST
\* per cluster is made, in list order, and the call ends by raising the
\* failure on all configured clusters.
C2_AllRejectedExhausts ==
    (Federating /\ pc = "done" /\ \A i \in 1..Len(posts) : Rejected(posts[i])) =>
        /\ Len(posts) = nclusters
        /\ InListOrder
        /\ result = AllFailed

C4_NeverDuplicates == pc = "done" => Cardinality(accepted) <= 1

\* C5: submit returns 0 exactly when a cluster returned 201, and that cluster
\* is the last one contacted; every other run ends in a non-zero return or a
\* raised failure.
C5_ZeroIffCreated ==
    /\ pc = "done" =>
         /\ (result = "0") <=> (\E i \in 1..Len(posts) : Created(posts[i]))
         /\ result # "none"
    /\ \A i \in 1..Len(posts) : Created(posts[i]) => i = Len(posts)

C5_Witness ==
    /\ pc = "done"
    /\ result = "0"
    /\ Len(posts) = 3
    /\ Created(posts[3])

\* the four validation failures of submit, stated on its inputs
RawAndTokens == raw /\ command # << >>
MalformedRaw == raw /\ command = << >> /\ payload.shape \notin {"dict", "list"}
NoCommands == ~raw /\ command = << >> /\ lines = << >>
IdWithSeveralCommands ==
    ~raw /\ command = << >> /\ Len(lines) > 1 /\ "uuid" \in DOMAIN args

InvalidInput == RawAndTokens \/ MalformedRaw \/ NoCommands \/ IdWithSeveralCommands

ValidationMessages ==
    {"You cannot specify a command at the command line when using --raw/-r.",
     "malformed JSON for raw job",
     "You must specify at least one command.",
     "You cannot specify multiple subcommands with a single UUID."}

\* C6: each validation failure of submit (raw mode with command tokens,
\* malformed raw JSON, no interactive command, an explicit job id with
\* several commands) is raised before any POST and before any notification
\* of the metrics collaborator.
C6_ValidationBeforeNetwork ==
    /\ InvalidInput =>
         /\ posts = << >>
         /\ accepted = {}
         /\ metrics = << >>
         /\ pc # "submit" => (pc = "done" /\ result \in ValidationMessages)
    /\ result \in ValidationMessages => (posts = << >> /\ metrics = << >>)

C6_Witness ==
    /\ pc = "done"
    /\ IdWithSeveralCommands
    /\ result = "You cannot specify multiple subcommands with a single UUID."
    /\ posts = << >>

\* assembly yields more than one job
SeveralJobs ==
    /\ command = << >>
    /\ IF raw THEN payload.shape = "list" /\ Len(payload.val) > 1 ELSE Len(lines) > 1

\* C7: with an explicit job id in the configuration and more than one job
\* from assembly, from interactive lines or from a raw list, submit fails
\* validation and submits no batch.
C7_IdWithSeveralJobsFails ==
    ("uuid" \in DOMAIN args /\ SeveralJobs /\ pc # "submit") =>
        /\ pc = "done"
        /\ posts = << >>
        /\ result \notin {"none", "0", "1", AllFailed}

\* C8: the job ids of a batch handed to submit_federated are pairwise
\* distinct, in every mode and for every configuration and raw override.
C8_DistinctIds ==
    Federating =>
        \A i, j \in 1..Len(jobs) : i # j => jobs[i]["uuid"] # jobs[j]["uuid"]

\* j is t with o merged onto it, o winning: j has the keys of both, keeps
\* the entries only t has, takes the entries of o, and where both hold a
\* mapping the same holds one level down
RECURSIVE MergedOnto(_, _, _)
MergedOnto(j, t, o) ==
    /\ DOMAIN j = (DOMAIN t) \cup (DOMAIN o)
    /\ \A k \in DOMAIN j :
         IF k \notin DOMAIN o THEN j[k] = t[k]
         ELSE IF k \in DOMAIN t /\ t[k].tag = "m" /\ o[k].tag = "m"
              THEN j[k].tag = "m" /\ MergedOnto(j[k].v, t[k].v, o[k].v)
              ELSE j[k] = o[k]

\* C9: parse_raw_job_spec maps a mapping to one job, a list of k elements to
\* k jobs in list order, each the override merged onto the template with the
\* override winning, and fails with the malformed-raw-job error, yielding no
\* job, for any other top-level value or a syntax error.
C9_RawShapes ==
    pc = "parsed" =>
        IF payload.shape = "dict"
        THEN /\ result = "none"
             /\ Len(jobs) = 1
             /\ MergedOnto(jobs[1], args, payload.val[1])
        ELSE IF payload.shape = "list"
        THEN /\ result = "none"
             /\ Len(jobs) = Len(payload.val)
             /\ \A i \in 1..Len(jobs) : MergedOnto(jobs[i], args, payload.val[i])
        ELSE /\ result = "malformed JSON for raw job"
             /\ jobs = << >>

C9_Witness ==
    /\ pc = "parsed"
    /\ payload.shape = "list"
    /\ Len(jobs) = 2
    /\ "uuid" \in DOMAIN args
    /\ "uuid" \in DOMAIN payload.val[2]
    /\ jobs[2]["uuid"] = payload.val[2]["uuid"]
    /\ jobs[2]["uuid"] # args["uuid"]
    /\ jobs[1]["uuid"] = args["uuid"]

\* the body without its leading and trailing quotes
FirstKept(b) == CHOOSE i \in 1..Len(b) : b[i] # Quote /\ \A j \in 1..(i - 1) : b[j] = Quote
LastKept(b) == CHOOSE i \in 1..Len(b) : b[i] # Quote /\ \A j \in (i + 1)..Len(b) : b[j] = Quote
Trimmed(b) ==
    IF \A i \in 1..Len(b) : b[i] = Quote THEN << >> ELSE SubSeq(b, FirstKept(b), LastKept(b))

\* the marker ' submitted groups' starts at position i of t
MarkerStarts(t, i) ==
    /\ i + 3 <= Len(t)
    /\ t[i] = " " /\ t[i + 1] = "submitted" /\ t[i + 2] = " " /\ t[i + 3] = "groups"

\* position of the first marker of t, Len(t) + 1 when there is none
FirstMarker(t) ==
    IF \E i \in 1..Len(t) : MarkerStarts(t, i)
    THEN CHOOSE i \in 1..Len(t) :
            MarkerStarts(t, i) /\ \A j \in 1..(i - 1) : ~MarkerStarts(t, j)
    ELSE Len(t) + 1

\* positions of t holding a token that is a whole UUID
UuidTokenAt(t, i) ==
    /\ t[i] \in UuidAtoms
    /\ i = 1 \/ t[i - 1] \in Whitespace
    /\ i = Len(t) \/ t[i + 1] \in Whitespace

UuidsBefore(t) == {i \in 1..Len(t) : UuidTokenAt(t, i) /\ i < FirstMarker(t)}

\* C10: for a 201 response the reported identifiers are exactly the
\* whitespace-separated tokens of the quote-trimmed body that are valid UUIDs
\* and occur before the first marker ' submitted groups', in their order.
C10_ReportedUuids ==
    pc = "printed" /\ resp.status = 201 =>
        LET t == Trimmed(resp.text)
            P == UuidsBefore(t)
            r == reports[1].uuids
        IN /\ Len(reports) = 1
           /\ reports[1].kind = "succeeded"
           /\ Len(r) = Cardinality(P)
           /\ \A p \in P : r[Cardinality({q \in P : q < p}) + 1] = <<t[p]>>

C10_Witness ==
    /\ pc = "printed"
    /\ resp.text = <<" ", "submitted", " ", "groups", " ", "U1">>
    /\ reports[1].uuids = << >>

\* the JSON body is an object with this key
HasKey(data, key) == data.shape = "object" /\ key \in DOMAIN data.obj

\* the reason is the raw text body (the message ends it with a line break)
IsRawText(reason, text) ==
    reason.how = "text" /\ (reason.of = text \/ reason.of = text \o <<"\n">>)

\* C11: for a non-201 response the reason is the serialized value of the
\* key errors if the JSON body has one, else the value of the key error,
\* else the whole JSON body serialized, and the raw text when the body is
\* not JSON.
C11_ReasonPrecedence ==
    (pc = "printed" /\ resp.status # 201) =>
        /\ result = "none"
        /\ Len(reports) = 1
        /\ reports[1].kind = "failed"
        /\ LET data == resp.json
               reason == reports[1].reason
           IN IF data.shape = "invalid" THEN IsRawText(reason, resp.text)
              ELSE IF HasKey(data, "errors")
              THEN reason.how = "dumps" /\ reason.of = data.obj["errors"]
              ELSE IF HasKey(data, "error")
              THEN reason.how = "value" /\ reason.of = data.obj["error"]
              ELSE reason.how = "dumps" /\ reason.of = data

\* an env entry of the configuration has no "="
BadEnv ==
    /\ ~raw
    /\ "env" \in DOMAIN args
    /\ \E i \in 1..Len(args["env"].v) :
          \A k \in 1..Len(args["env"].v[i]) : args["env"].v[i][k] # "="

\* submit has run on an input that passes validation
Assembled == pc # "submit" /\ ~InvalidInput /\ ~BadEnv

\* what the i-th job takes from its source for a key: the raw override
\* first, then the configuration
Supplies(i, key) ==
    \/ raw /\ key \in DOMAIN payload.val[i]
    \/ key \in DOMAIN args

Supplied(i, key) ==
    IF raw /\ key \in DOMAIN payload.val[i] THEN payload.val[i][key] ELSE args[key]

\* the command of the i-th job before the prefix is applied
ResolvedCommand(i) ==
    IF raw THEN payload.val[i]["command"].v
    ELSE acquire_commands(command, lines).commands[i]

\* C12: with a non-empty command-prefix every job of the batch, in every
\* mode, has the prefix followed directly by its resolved command as its
\* command, and assembly completes for every such batch.
C12_PrefixOnEveryJob ==
    (Assembled /\ prefix # << >>) =>
        /\ Federating
        /\ \A i \in 1..Len(jobs) :
              /\ "command" \in DOMAIN jobs[i]
              /\ jobs[i]["command"] = S(prefix \o ResolvedCommand(i))

GeneratedIds == {uuid4(n) : n \in 1..(MaxLines + MaxRawJobs + 2)}

DefaultName == S(<<current_user, "_job">>)

\* C13 as stated: every job of the batch carries an id and a name; a job
\* without one gets a generated id, or the name '<current-user>_job', and an
\* id or name supplied by configuration or raw override is kept unchanged.
C13_IdAndNameAsStated ==
    Federating =>
        \A i \in 1..Len(jobs) :
            /\ {"uuid", "name"} \subseteq DOMAIN jobs[i]
            /\ IF Supplies(i, "uuid") THEN jobs[i]["uuid"] = Supplied(i, "uuid")
               ELSE jobs[i]["uuid"] \in GeneratedIds
            /\ IF Supplies(i, "name") THEN jobs[i]["name"] = Supplied(i, "name")
               ELSE jobs[i]["name"] = DefaultName

\* a non-empty value is supplied
SuppliesValue(i, key) == Supplies(i, key) /\ Supplied(i, key).v # << >>

\* C13: every job of the batch carries a non-empty id and name; a job whose
\* supplied id or name is absent or empty gets a generated id, different
\* from every other id of the invocation, or the name '<current-user>_job',
\* and a non-empty supplied id or name is kept unchanged.
C13_IdAndName ==
    Federating =>
        \A i \in 1..Len(jobs) :
            /\ Get(jobs[i], "uuid") /\ Get(jobs[i], "name")
            /\ IF SuppliesValue(i, "uuid") THEN jobs[i]["uuid"] = Supplied(i, "uuid")
               ELSE /\ jobs[i]["uuid"] \in GeneratedIds
                    /\ \A j \in 1..Len(jobs) : j # i => jobs[j]["uuid"] # jobs[i]["uuid"]
                    /\ group # EmptyDict => group["uuid"] # jobs[i]["uuid"]
            /\ IF SuppliesValue(i, "name") THEN jobs[i]["name"] = Supplied(i, "name")
               ELSE jobs[i]["name"] = DefaultName

C13_Witness ==
    /\ Federating
    /\ raw
    /\ Len(jobs) = 2
    /\ "name" \in DOMAIN args
    /\ SuppliesValue(1, "uuid") /\ jobs[1]["name"] = S(<<"n1">>)
    /\ ~SuppliesValue(2, "uuid") /\ jobs[2]["uuid"] \in GeneratedIds
    /\ jobs[2]["name"] = args["name"]

\* the id of the group: the configured one, or the first generated id
GroupId == IF "group" \in DOMAIN args THEN args["group"] ELSE uuid4(1)

\* C14 as stated: the request body has a groups entry exactly when a
\* group-name is configured; the id of the group is the configured group id
\* or a generated one, and every job of the batch carries it as its group.
C14_GroupAsStated ==
    \A p \in 1..Len(posts) :
        LET body == posts[p].body
        IN /\ ("groups" \in DOMAIN body) <=> ("group-name" \in DOMAIN args)
           /\ "group-name" \in DOMAIN args =>
                /\ body.groups = <<[name |-> args["group-name"], uuid |-> GroupId]>>
                /\ \A i \in 1..Len(body.jobs) :
                      "group" \in DOMAIN body.jobs[i] /\ body.jobs[i]["group"] = GroupId

\* C14: the request body has a groups entry exactly when a group-name is
\* configured; the id of the group is the configured group id or a generated
\* one, and every job of the batch carries it as its group, except a job
\* whose raw override supplies a group of its own, which carries that one.
C14_Group ==
    \A p \in 1..Len(posts) :
        LET body == posts[p].body
        IN /\ ("groups" \in DOMAIN body) <=> ("group-name" \in DOMAIN args)
           /\ "group-name" \in DOMAIN args =>
                /\ body.groups = <<[name |-> args["group-name"], uuid |-> GroupId]>>
                /\ \A i \in 1..Len(body.jobs) :
                      /\ "group" \in DOMAIN body.jobs[i]
                      /\ body.jobs[i]["group"] =
                            IF raw /\ "group" \in DOMAIN payload.val[i]
                            THEN payload.val[i]["group"] ELSE GroupId

C14_Witness ==
    /\ Len(posts) = 1
    /\ "group-name" \in DOMAIN args
    /\ "group" \notin DOMAIN args
    /\ Len(posts[1].body.jobs) = 2
    /\ posts[1].body.groups[1].uuid = uuid4(1)
    /\ posts[1].body.jobs[1]["group"] = uuid4(1)
    /\ posts[1].body.jobs[2]["group"] = uuid4(1)

\* the command the claim gives for the tokens of the command line
ClaimedCommand(tokens) ==
    LET rest == IF tokens[1] = <<"-", "-">> THEN Tail(tokens) ELSE tokens
    IN IF Len(rest) > 1
       THEN JoinSpace([i \in 1..Len(rest) |-> shlex_quote(rest[i])])
       ELSE rest[1]

\* C15: in explicit mode exactly one command, and so one job, results from
\* a non-empty token sequence: one leading '--' is discarded, the tokens are
\* shell-quoted and joined with blanks only when more than one remains, and
\* a single remaining token is the command unchanged.
C15_ExplicitCommand ==
    (Assembled /\ ~raw /\ command # << >>) =>
        /\ Federating
        /\ Len(jobs) = 1
        /\ command # <<<<"-", "-">>>> =>
               jobs[1]["command"] = S(prefix \o ClaimedCommand(command))

\* C19: every job of a batch handed to submit_federated has a non-empty
\* command, in explicit, interactive and raw mode, also for raw overrides
\* that supply no command.
C19_NonEmptyCommand ==
    Federating => \A i \in 1..Len(jobs) : Get(jobs[i], "command")

\* C16: a non-201 response is recoverable whatever the shape of its body:
\* the failure of the cluster is reported, no exception leaves
\* print_submit_result or submit_federated, and the next cluster is contacted.
C16_RejectedIsRecoverable ==
    \A i \in 1..Len(posts) :
        Rejected(posts[i]) =>
            /\ result # "TypeError"
            /\ \E n \in 1..Len(reports) :
                  reports[n].cluster = posts[i].cluster /\ reports[n].kind = "failed"
            /\ (pc = "done" /\ i < nclusters) => Len(posts) > i

\* C17: every cluster receives at most one POST, so a failed attempt is not
\* repeated at its cluster and there are never more POSTs than clusters.
C17_OnePostPerCluster ==
    /\ \A i, j \in 1..Len(posts) : posts[i].cluster = posts[j].cluster => i = j
    /\ \A i \in 1..Len(posts) : posts[i].cluster \in 1..nclusters
    /\ Len(posts) <= nclusters

C17_Witness ==
    /\ pc = "done"
    /\ nclusters = 3
    /\ Len(posts) = 3
    /\ \A i \in 1..3 : Recoverable(posts[i])

\* C18: the metrics collaborator is notified at most once, only after a
\* cluster returned 201, with the number of jobs of the batch, and never
\* after a non-201 response, a connectivity failure, a read-timeout,
\* exhaustion or a validation failure.
C18_MetricsOnlyOnCreated ==
    /\ Len(metrics) <= 1
    /\ metrics # << >> =>
          /\ pc = "done" /\ result = "0"
          /\ Created(posts[Len(posts)])
          /\ metrics[1] = Len(jobs)
    /\ (pc = "done" /\ result # "0") => metrics = << >>

C18_Witness ==
    /\ metrics = <<2>>
    /\ Len(posts) = 3
    /\ posts[1].kind = "IOError"
    /\ Rejected(posts[2])

\* C20: every cluster contacted in one invocation receives the same request
\* body, with the job list and the group as they were before the first POST.
C20_SameBody ==
    \A p \in 1..Len(posts) :
        /\ posts[p].body = posts[1].body
        /\ posts[p].body.jobs = jobs
        /\ group # EmptyDict => posts[p].body.groups = <<group>>

C20_Witness ==
    /\ Len(posts) = 3
    /\ Len(jobs) = 2
    /\ group # EmptyDict
    /\ jobs[1]["uuid"] \in GeneratedIds
    /\ posts[3].body.jobs = jobs

====
